---- MODULE Spec2Model ----
(***************************************************************************)
(* Model of the classification engine of text_classifier.py:               *)
(* TextClassifier.__init__, _build_prompt, _parse_response, classify and   *)
(* classify_batch, with the remote completion service as the environment.  *)
(*                                                                         *)
(* Python values are tagged records.  A Python str is Str(s) with s a      *)
(* sequence of characters; a character is Ch(x), and the text of one whole *)
(* JSON document is the single character-like chunk JsonText(v), where v   *)
(* is the value json.loads decodes it to.  Exception messages are records  *)
(* [fmt, args]: the format string of the source and what it interpolates.  *)
(***************************************************************************)
EXTENDS Integers, Sequences, FiniteSets, TLC

(***************************************************************************)
(* Bounds of the model.                                                    *)
(***************************************************************************)
\* longest list handed to classify_batch
MaxBatch == 2
\* longest response body, in pieces, handed to the parser
MaxBody == 2
\* web requests in flight at the same time
MaxRequests == 2

(***************************************************************************)
(* Python values.                                                          *)
(***************************************************************************)
Ch(x) == [c |-> x]
JsonText(v) == [json |-> v]
Chars(xs) == [i \in 1..Len(xs) |-> Ch(xs[i])]

None == [t |-> "None"]
Str(s) == [t |-> "str", s |-> s]
\* a JSON number, in hundredths (95 is 0.95, 250 is 2.5)
Num(n) == [t |-> "num", n |-> n]
Bool(b) == [t |-> "bool", b |-> b]
List(items) == [t |-> "list", items |-> items]
Dict(d) == [t |-> "dict", d |-> d]

IsStr(v) == v.t = "str"

\* an exception object: its class and the message str(e) gives
Exc(type, fmt, args) == [type |-> type, msg |-> [fmt |-> fmt, args |-> args]]
\* str(e) as a Python value
StrOfExc(e) == [t |-> "str", msg |-> e.msg]
Message(fmt) == [t |-> "str", msg |-> [fmt |-> fmt, args |-> <<>>]]

\* how a call or a statement ends: it returns a value or raises an exception
Returns(v) == [kind |-> "return", value |-> v]
Raises(e) == [kind |-> "raise", exc |-> e]

\* Python truthiness of the values the code tests with not x / if x
Truthy(v) ==
    CASE v.t = "None" -> FALSE
      [] v.t = "str" -> IF "s" \in DOMAIN v THEN v.s # <<>> ELSE v.msg.fmt # ""
      [] v.t = "num" -> v.n # 0
      [] v.t = "bool" -> v.b
      [] v.t = "list" -> v.items # <<>>
      [] v.t = "dict" -> DOMAIN v.d # {}

(***************************************************************************)
(* str methods used by the engine: strip, startswith, endswith, slices,    *)
(* lower, join, in.                                                        *)
(***************************************************************************)
IsSpace(ch) == ch \in {Ch(" "), Ch("\n")}

RECURSIVE LStrip(_)
LStrip(s) == IF s # <<>> /\ IsSpace(Head(s)) THEN LStrip(Tail(s)) ELSE s

RECURSIVE RStrip(_)
RStrip(s) ==
    IF s # <<>> /\ IsSpace(s[Len(s)]) THEN RStrip(SubSeq(s, 1, Len(s) - 1)) ELSE s

\* str.strip()
Strip(s) == RStrip(LStrip(s))

\* str.startswith(p)
StartsWith(s, p) == Len(s) >= Len(p) /\ SubSeq(s, 1, Len(p)) = p
\* str.endswith(p)
EndsWith(s, p) == Len(s) >= Len(p) /\ SubSeq(s, Len(s) - Len(p) + 1, Len(s)) = p
\* s[n:]
DropFirst(s, n) == SubSeq(s, n + 1, Len(s))
\* s[:-n]
DropLast(s, n) == SubSeq(s, 1, Len(s) - n)
\* sub in s, for str operands
Contains(s, sub) ==
    \E i \in 0..(Len(s) - Len(sub)) : SubSeq(s, i + 1, i + Len(sub)) = sub

UpperLetters == <<"A", "B", "C", "D", "E", "F", "G", "H", "I", "J", "K", "L", "M",
                  "N", "O", "P", "Q", "R", "S", "T", "U", "V", "W", "X", "Y", "Z">>
LowerLetters == <<"a", "b", "c", "d", "e", "f", "g", "h", "i", "j", "k", "l", "m",
                  "n", "o", "p", "q", "r", "s", "t", "u", "v", "w", "x", "y", "z">>
LowerChar(ch) ==
    IF "c" \in DOMAIN ch /\ \E i \in DOMAIN UpperLetters : UpperLetters[i] = ch.c
    THEN Ch(LowerLetters[CHOOSE i \in DOMAIN UpperLetters : UpperLetters[i] = ch.c])
    ELSE ch
\* str.lower()
Lower(s) == [i \in 1..Len(s) |-> LowerChar(s[i])]

RECURSIVE Join(_, _)
\* sep.join(strs), on the character sequences
Join(sep, strs) ==
    IF strs = <<>> THEN <<>>
    ELSE IF Len(strs) = 1 THEN strs[1].s
    ELSE strs[1].s \o sep \o Join(sep, Tail(strs))

(***************************************************************************)
(* json.loads and dict access.                                             *)
(***************************************************************************)
IsJsonSpace(ch) == ch \in {Ch(" "), Ch("\n")}

RECURSIVE JsonLStrip(_)
JsonLStrip(s) == IF s # <<>> /\ IsJsonSpace(Head(s)) THEN JsonLStrip(Tail(s)) ELSE s

RECURSIVE JsonRStrip(_)
JsonRStrip(s) ==
    IF s # <<>> /\ IsJsonSpace(s[Len(s)])
    THEN JsonRStrip(SubSeq(s, 1, Len(s) - 1))
    ELSE s

\* json.loads(s): the text must be one JSON document, JSON whitespace around
\* it allowed; anything else is a JSONDecodeError, "Extra data" when text
\* follows a document and "Expecting value" when none begins the text
JsonDecode(body) ==
    IF body = <<>> \/ "json" \notin DOMAIN body[1]
    THEN Raises(Exc("JSONDecodeError", "Expecting value", <<>>))
    ELSE IF Len(body) > 1
    THEN Raises(Exc("JSONDecodeError", "Extra data", <<>>))
    ELSE Returns(body[1].json)

JsonLoads(s) == JsonDecode(JsonRStrip(JsonLStrip(s)))

\* dict.get(key): the value, or None when the key is absent
DictGet(d, key) == IF key \in DOMAIN d THEN d[key] ELSE None

\* type(v).__name__, as it appears in TypeError and AttributeError messages
TypeName(v) ==
    [type |-> CASE v.t = "None" -> "NoneType"
                [] v.t = "num" -> "int"
                [] OTHER -> v.t]

LabelKey == Chars(<<"l", "a", "b", "e", "l">>)

(***************************************************************************)
(* TextClassifier._parse_response.                                         *)
(***************************************************************************)
\* the character written "tick" is the backtick
Fence == Chars(<<"tick", "tick", "tick">>)
FenceJson == Chars(<<"tick", "tick", "tick", "j", "s", "o", "n">>)

\* line 120-121
StripTaggedMarker(a) == IF StartsWith(a, FenceJson) THEN DropFirst(a, 7) ELSE a
\* line 122-123
StripOpeningMarker(b) == IF StartsWith(b, Fence) THEN DropFirst(b, 3) ELSE b
\* line 124-125
StripClosingMarker(c) == IF EndsWith(c, Fence) THEN DropLast(c, 3) ELSE c

\* the stripping without the test for the marker tagged json
StripCodeBlockNoTag(text) ==
    Strip(StripClosingMarker(StripOpeningMarker(Strip(text))))

\* lines 117-126: strip, drop the code-block markers, strip
StripCodeBlock(text) ==
    Strip(StripClosingMarker(StripOpeningMarker(StripTaggedMarker(Strip(text)))))

\* line 132: "label" not in result; a TypeError when result is not a container
LabelNotIn(result) ==
    CASE result.t = "dict" -> Returns("label" \notin DOMAIN result.d)
      [] result.t = "list" ->
            Returns(~ \E i \in DOMAIN result.items : result.items[i] = Str(LabelKey))
      [] result.t = "str" -> Returns(~ Contains(result.s, LabelKey))
      [] OTHER ->
            Raises(Exc("TypeError", "argument of type '{}' is not iterable",
                       <<TypeName(result)>>))

\* result["label"]; a TypeError when result is a list or a str
GetLabel(result) ==
    IF result.t = "dict"
    THEN Returns(result.d["label"])
    ELSE Raises(Exc("TypeError",
                    IF result.t = "list"
                    THEN "list indices must be integers or slices, not str"
                    ELSE "string indices must be integers, not 'str'",
                    <<>>))

\* lines 139-142: the first label equal to the received one ignoring case
MatchingLabel(labels, label_lower) ==
    IF \E i \in DOMAIN labels : Lower(labels[i].s) = label_lower
    THEN labels[CHOOSE i \in DOMAIN labels :
                    /\ Lower(labels[i].s) = label_lower
                    /\ \A j \in 1..(i - 1) : Lower(labels[j].s) # label_lower]
    ELSE None

\* line 138: result["label"].lower() on a label that is not a str
NoLower(label) ==
    Raises(Exc("AttributeError", "'{}' object has no attribute 'lower'",
               <<TypeName(label)>>))

\* lines 143-148
Matched(labels, label, matching_label) ==
    IF Truthy(matching_label)
    THEN Returns(matching_label)
    ELSE Raises(Exc("ValueError", "Invalid label '{}'. Must be one of: {}",
                    <<label, labels>>))

\* lines 143-148 without the rejection of a label that matches no member
MatchedAnyStr(labels, label, matching_label) ==
    Returns(IF Truthy(matching_label) THEN matching_label ELSE label)

\* lines 143-148 keeping the spelling received
MatchedKeepSpelling(labels, label, matching_label) ==
    IF Truthy(matching_label)
    THEN Returns(label)
    ELSE Raises(Exc("ValueError", "Invalid label '{}'. Must be one of: {}",
                    <<label, labels>>))

\* ValidateLabel without the rejection of a label that matches no member
ValidateLabelAnyStr(labels, label) ==
    IF \E i \in DOMAIN labels : labels[i] = label THEN Returns(label)
    ELSE IF ~ IsStr(label) THEN NoLower(label)
    ELSE MatchedAnyStr(labels, label, MatchingLabel(labels, Lower(label.s)))

\* ValidateLabel keeping the spelling received when it matches ignoring case
ValidateLabelKeepSpelling(labels, label) ==
    IF \E i \in DOMAIN labels : labels[i] = label THEN Returns(label)
    ELSE IF ~ IsStr(label) THEN NoLower(label)
    ELSE MatchedKeepSpelling(labels, label, MatchingLabel(labels, Lower(label.s)))

\* lines 136-148: the label to report, or the exception raised
ValidateLabel(labels, label) ==
    IF \E i \in DOMAIN labels : labels[i] = label THEN Returns(label)
    ELSE IF ~ IsStr(label) THEN NoLower(label)
    ELSE Matched(labels, label, MatchingLabel(labels, Lower(label.s)))

\* the returned dict with the confidence forced into 0.0 .. 1.0
ParsedClamped(result, label) ==
    LET confidence == DictGet(result.d, "confidence")
    IN  [predicted_label |-> label,
         confidence |-> IF confidence.t = "num" /\ confidence.n > 100
                        THEN Num(100)
                        ELSE confidence,
         rationale |-> DictGet(result.d, "rationale")]

\* lines 150-154: the dict _parse_response returns
Parsed(result, label) ==
    [predicted_label |-> label,
     confidence |-> DictGet(result.d, "confidence"),
     rationale |-> DictGet(result.d, "rationale")]

\* lines 150-154, reached with what the validation of the label gave
AfterValidate(result, valid) ==
    IF valid.kind = "raise" THEN valid ELSE Returns(Parsed(result, valid.value))

\* lines 136-148, reached with what result["label"] gave
AfterGetLabel(labels, result, label) ==
    IF label.kind = "raise" THEN label
    ELSE AfterValidate(result, ValidateLabel(labels, label.value))

\* lines 132-136, reached with what the test "label" not in result gave
AfterLabelTest(labels, result, missing) ==
    IF missing.kind = "raise" THEN missing
    ELSE IF missing.value
    THEN Raises(Exc("ValueError", "Response missing 'label' field", <<>>))
    ELSE AfterGetLabel(labels, result, GetLabel(result))

\* lines 129-132, reached with what json.loads gave
AfterLoads(labels, loaded) ==
    IF loaded.kind = "raise" THEN loaded
    ELSE AfterLabelTest(labels, loaded.value, LabelNotIn(loaded.value))

\* lines 117-154: the body of the try block; response_text.strip() is an
\* AttributeError when response_text is not a str
ParseTry(labels, response_text) ==
    IF ~ IsStr(response_text)
    THEN Raises(Exc("AttributeError", "'{}' object has no attribute 'strip'",
                    <<TypeName(response_text)>>))
    ELSE AfterLoads(labels, JsonLoads(StripCodeBlock(response_text.s)))

\* the except clauses without the catch-all: only JSONDecodeError is wrapped
ParseExceptJsonOnly(e) ==
    IF e.type = "JSONDecodeError"
    THEN Exc("ValueError", "Failed to parse JSON response: {}", <<e.msg>>)
    ELSE e

\* lines 155-158: every exception leaves as a ValueError
ParseExcept(e) ==
    IF e.type = "JSONDecodeError"
    THEN Exc("ValueError", "Failed to parse JSON response: {}", <<e.msg>>)
    ELSE Exc("ValueError", "Error parsing response: {}", <<e.msg>>)

\* lines 155-158: an exception raised in the try block leaves converted
ParseCaught(tried) ==
    IF tried.kind = "raise" THEN Raises(ParseExcept(tried.exc)) ELSE tried

\* _parse_response(self, response_text)
ParseResponse(labels, response_text) == ParseCaught(ParseTry(labels, response_text))

(***************************************************************************)
(* TextClassifier: construction.                                           *)
(***************************************************************************)
\* a or b
Or(a, b) == IF Truthy(a) THEN a ELSE b

\* _default_labels()
DefaultLabels ==
    List(<<Str(Chars(<<"C", "o", "m", "p", "l", "a", "i", "n", "t">>)),
           Str(Chars(<<"I", "n", "q", "u", "i", "r", "y">>)),
           Str(Chars(<<"F", "e", "e", "d", "b", "a", "c", "k">>)),
           Str(Chars(<<"O", "t", "h", "e", "r">>))>>)

\* a prompt template is a sequence of literal stretches and replacement fields
Lit(x) == [lit |-> x]
Field(name) == [field |-> name]

\* _default_prompt_template()
DefaultPromptTemplate ==
    <<Lit("Classify the following text into exactly one of these categories: "),
      Field("labels"),
      Lit("Classification Rules: ... Text to classify: "),
      Field("text"),
      Lit("Respond with a JSON object containing: label (must match one of: "),
      Field("labels"),
      Lit("), confidence, rationale. Response format (JSON only):")>>

DefaultModel == "gpt-3.5-turbo"

\* lines 55-78: __init__(api_key, model, labels, config_file), with the
\* OPENAI_API_KEY of the environment; config_file is None or a path, of which
\* the model keeps whether the file exists and what json.load reads from it
Construct(api_key, env_key, model, labels, config_file) ==
    LET key == Or(api_key, env_key)
        has_config == Truthy(config_file) /\ config_file.exists
        config == config_file.content
        the_labels ==
            IF has_config
            THEN IF "labels" \in DOMAIN config.d
                 THEN config.d["labels"]
                 ELSE Or(labels, DefaultLabels)
            ELSE Or(labels, DefaultLabels)
        the_template ==
            IF has_config /\ "prompt_template" \in DOMAIN config.d
            THEN config.d["prompt_template"]
            ELSE DefaultPromptTemplate
    IN  IF ~ Truthy(key)
        THEN Raises(Exc("ValueError", "OpenAI API key not found.", <<>>))
        ELSE IF has_config /\ config.t # "dict"
        THEN Raises(Exc("JSONDecodeError", "Expecting value", <<>>))
        ELSE IF ~ Truthy(the_labels) \/ Len(the_labels.items) < 2
        THEN Raises(Exc("ValueError",
                        "At least 2 labels are required for classification", <<>>))
        ELSE Returns([t |-> "TextClassifier",
                      api_key |-> key,
                      client |-> [t |-> "OpenAI", api_key |-> key],
                      model |-> model,
                      labels |-> the_labels.items,
                      prompt_template |-> the_template])

(***************************************************************************)
(* TextClassifier._build_prompt, classify, classify_batch.                 *)
(***************************************************************************)
\* what str.format puts in place of one part of the template: a KeyError for
\* a replacement field other than labels and text
FormatPart(part, labels_str, text) ==
    IF "lit" \in DOMAIN part THEN Returns(<<Ch(part.lit)>>)
    ELSE IF part.field = "labels" THEN Returns(labels_str)
    ELSE IF part.field = "text" THEN Returns(text.s)
    ELSE Raises(Exc("KeyError", "'{}'", <<[field |-> part.field]>>))

\* the formatted parts put together; the first KeyError leaves
Formatted(first, rest) ==
    IF first.kind = "raise" THEN first
    ELSE IF rest.kind = "raise" THEN rest
    ELSE Returns(first.value \o rest.value)

RECURSIVE Format(_, _, _)
\* str.format(labels=..., text=...)
Format(template, labels_str, text) ==
    IF template = <<>> THEN Returns(<<>>)
    ELSE Formatted(FormatPart(Head(template), labels_str, text),
                   Format(Tail(template), labels_str, text))

\* lines 105-111
BuildPrompt(self, text) ==
    Format(self.prompt_template, Join(Chars(<<",", " ">>), self.labels), text)

SystemMessage ==
    "You are a precise text classification assistant. Always respond with valid JSON only."

\* lines 180-195: the arguments of chat.completions.create (temperature and
\* max_tokens as the source writes them)
CreateCall(self, prompt) ==
    [model |-> self.model,
     messages |-> <<[role |-> "system", content |-> SystemMessage],
                    [role |-> "user", content |-> prompt]>>,
     temperature |-> "0.0",
     max_tokens |-> "200",
     response_format |-> [type |-> "json_object"]]

ClassificationResult(text, predicted_label, confidence, rationale, error) ==
    [text |-> text, predicted_label |-> predicted_label, confidence |-> confidence,
     rationale |-> rationale, error |-> error]

Other == Str(Chars(<<"O", "t", "h", "e", "r">>))

\* line 197: response.choices[0].message.content
FirstContent(response) ==
    IF response.choices = <<>>
    THEN Raises(Exc("IndexError", "list index out of range", <<>>))
    ELSE Returns(response.choices[1])

\* a classify outcome with the prompts rendered and the requests sent during
\* it, where it does not name them yet
Logged(out, prompts, calls) == out @@ [prompts |-> prompts, calls |-> calls]

\* lines 200-205, reached with what _parse_response gave
AfterParse(text, parsed) ==
    IF parsed.kind = "raise" THEN parsed
    ELSE Returns(ClassificationResult(text,
                                      parsed.value.predicted_label,
                                      parsed.value.confidence,
                                      parsed.value.rationale,
                                      None))

\* lines 198-205, reached with what response.choices[0].message.content gave
AfterContent(self, text, response_text) ==
    IF response_text.kind = "raise" THEN response_text
    ELSE AfterParse(text, ParseResponse(self.labels, response_text.value))

\* lines 197-205, reached with what chat.completions.create did
AfterCreate(self, text, response) ==
    IF response.kind = "raise" THEN response
    ELSE AfterContent(self, text, FirstContent(response.value))

\* lines 180-205, reached with what _build_prompt gave
AfterBuildPrompt(self, text, remote, prompt) ==
    IF prompt.kind = "raise" THEN Logged(prompt, <<>>, <<>>)
    ELSE Logged(AfterCreate(self, text, remote),
                <<prompt.value>>, <<CreateCall(self, prompt.value)>>)

\* lines 177-205: the try block of classify; remote is what the completion
\* service does with the request: it raises, or returns a response
ClassifyTry(self, text, remote) ==
    AfterBuildPrompt(self, text, remote, BuildPrompt(self, text))

\* lines 207-212: the except clause of classify
ClassifyExcept(text, tried) ==
    IF tried.kind = "raise"
    THEN Logged(Returns(ClassificationResult(text, Other, None, None,
                                             StrOfExc(tried.exc))),
                tried.prompts, tried.calls)
    ELSE tried

\* an except clause that catches ValueError only
ClassifyExceptValueError(text, tried) ==
    IF tried.kind = "raise" /\ tried.exc.type = "ValueError"
    THEN Logged(Returns(ClassificationResult(text, Other, None, None,
                                             StrOfExc(tried.exc))),
                tried.prompts, tried.calls)
    ELSE tried

\* lines 171-175
EmptyText(text) ==
    Logged(Returns(ClassificationResult(text, Other, None, None,
                                        Message("Empty text provided"))),
           <<>>, <<>>)

\* classify with an except clause that catches ValueError only
ClassifyCatchValueError(self, text, remote) ==
    IF ~ Truthy(text) THEN EmptyText(text)
    ELSE IF ~ IsStr(text)
    THEN Logged(Raises(Exc("AttributeError", "'{}' object has no attribute 'strip'",
                           <<TypeName(text)>>)),
                <<>>, <<>>)
    ELSE IF Strip(text.s) = <<>> THEN EmptyText(text)
    ELSE ClassifyExceptValueError(text, ClassifyTry(self, text, remote))

\* classify with the empty-text test reduced to: if not text
ClassifyNoStripTest(self, text, remote) ==
    IF ~ Truthy(text) THEN EmptyText(text)
    ELSE ClassifyExcept(text, ClassifyTry(self, text, remote))

\* lines 160-212: classify(self, text).  The outcome carries what the call
\* returned or raised, the prompts it rendered and the completion requests
\* it sent.
Classify(self, text, remote) ==
    IF ~ Truthy(text) THEN EmptyText(text)
    ELSE IF ~ IsStr(text)
    THEN Logged(Raises(Exc("AttributeError", "'{}' object has no attribute 'strip'",
                           <<TypeName(text)>>)),
                <<>>, <<>>)
    ELSE IF Strip(text.s) = <<>> THEN EmptyText(text)
    ELSE ClassifyExcept(text, ClassifyTry(self, text, remote))

\* the prompts and requests of one more classify call added to those so far
Seen(log, result) ==
    [prompts |-> log.prompts \o result.prompts, calls |-> log.calls \o result.calls]

RECURSIVE BatchLoopSkipFailed(_, _, _, _, _, _)
\* the loop appending only the results that carry no error
BatchLoopSkipFailed(self, texts, remotes, i, results, log) ==
    IF i > Len(texts)
    THEN Logged(Returns(results), log.prompts, log.calls)
    ELSE LET result == Classify(self, texts[i], remotes[i])
         IN  IF result.kind = "raise"
             THEN Logged(Raises(result.exc), Seen(log, result).prompts,
                         Seen(log, result).calls)
             ELSE BatchLoopSkipFailed(self, texts, remotes, i + 1,
                                      IF result.value.error = None
                                      THEN Append(results, result.value)
                                      ELSE results,
                                      Seen(log, result))

RECURSIVE BatchLoopStopOnError(_, _, _, _, _, _)
\* the loop leaving at the first result that carries a remote or parse error
BatchLoopStopOnError(self, texts, remotes, i, results, log) ==
    IF i > Len(texts)
    THEN Logged(Returns(results), log.prompts, log.calls)
    ELSE LET result == Classify(self, texts[i], remotes[i])
         IN  IF result.kind = "raise"
             THEN Logged(Raises(result.exc), Seen(log, result).prompts,
                         Seen(log, result).calls)
             ELSE IF result.value.error # None /\ result.calls # <<>>
             THEN Logged(Returns(Append(results, result.value)),
                         Seen(log, result).prompts, Seen(log, result).calls)
             ELSE BatchLoopStopOnError(self, texts, remotes, i + 1,
                                       Append(results, result.value),
                                       Seen(log, result))

\* a classify outcome that rendered a prompt, that sent a request
HasPrompt(pass) == pass.prompts # <<>>
HasCall(pass) == pass.calls # <<>>

\* the prompts rendered and the requests sent by the passes, in their order;
\* classify renders at most one prompt and sends at most one request
PromptsOf(passes) ==
    [k \in DOMAIN SelectSeq(passes, HasPrompt) |->
        SelectSeq(passes, HasPrompt)[k].prompts[1]]
CallsOf(passes) ==
    [k \in DOMAIN SelectSeq(passes, HasCall) |-> SelectSeq(passes, HasCall)[k].calls[1]]

\* lines 225-228 with what self.classify(text) gives for each item from i on,
\* in passes: the passes run in order up to the first that raises, whose
\* exception leaves classify_batch; if none raises, every result is appended
AfterPasses(results, log, passes) ==
    IF \E k \in DOMAIN passes : passes[k].kind = "raise"
    THEN LET last == CHOOSE k \in DOMAIN passes :
                        /\ passes[k].kind = "raise"
                        /\ \A h \in 1..(k - 1) : passes[h].kind # "raise"
         IN  Logged(Raises(passes[last].exc),
                    log.prompts \o PromptsOf(SubSeq(passes, 1, last)),
                    log.calls \o CallsOf(SubSeq(passes, 1, last)))
    ELSE Logged(Returns(results \o [k \in DOMAIN passes |-> passes[k].value]),
                log.prompts \o PromptsOf(passes),
                log.calls \o CallsOf(passes))

\* lines 225-227: the for loop from item i on, with the results, prompts and
\* requests so far
BatchLoop(self, texts, remotes, i, results, log) ==
    AfterPasses(results, log,
                [k \in 1..(Len(texts) - i + 1) |->
                    Classify(self, texts[i + k - 1], remotes[i + k - 1])])

\* lines 214-228: classify_batch(self, texts); remotes[i] is what the
\* completion service does with the request for texts[i], if one is sent
ClassifyBatch(self, texts, remotes) ==
    BatchLoop(self, texts, remotes, 1, <<>>, [prompts |-> <<>>, calls |-> <<>>])

(***************************************************************************)
(* The inputs the model draws from: constructor arguments, texts, what the *)
(* completion service answers, and the texts handed to the parser.         *)
(***************************************************************************)
ArgKey == Str(Chars(<<"s", "k", "-", "a", "r", "g">>))
EnvKey == Str(Chars(<<"s", "k", "-", "e", "n", "v">>))

Hi == Str(Chars(<<"H", "i">>))
HI == Str(Chars(<<"H", "I">>))
Lo == Str(Chars(<<"L", "o">>))
Urgent == Str(Chars(<<"U", "r", "g", "e", "n", "t">>))
Normal == Str(Chars(<<"N", "o", "r", "m", "a", "l">>))

\* the labels argument: absent, or a list of 0, 1 or 2 labels; HI and Hi are
\* equal ignoring case
LabelArgs == {None, List(<<>>), List(<<Hi>>), List(<<HI, Hi>>)}

\* a template with a replacement field str.format is given no value for
BadTemplate == <<Lit("Classify "), Field("text"), Lit(" for "), Field("audience")>>
CustomTemplate == <<Lit("One of "), Field("labels"), Lit(": "), Field("text")>>

ConfigPath == Chars(<<"c", "o", "n", "f", "i", "g", ".", "j", "s", "o", "n">>)
ConfigFile(exists, content) ==
    [t |-> "str", s |-> ConfigPath, exists |-> exists, content |-> content]

\* what json.load reads from the config file
ConfigContents ==
    {[t |-> "malformed"],
     Dict(<<>>),
     Dict([labels |-> List(<<>>)]),
     Dict([labels |-> List(<<Urgent>>)]),
     Dict([labels |-> List(<<Urgent, Normal>>)]),
     Dict([prompt_template |-> BadTemplate]),
     Dict([labels |-> List(<<Lo, Hi>>), prompt_template |-> CustomTemplate])}

ConfigFileArgs ==
    {None, ConfigFile(FALSE, None)} \cup {ConfigFile(TRUE, c) : c \in ConfigContents}

\* texts: empty, whitespace only, and two that are not blank
Texts ==
    {Str(<<>>), Str(Chars(<<" ", "\n">>)), Str(Chars(<<"a">>)),
     Str(Chars(<<" ", "b", " ">>))}

\* a JSON object with the keys whose value is not Absent
Absent == [t |-> "absent"]
Object(label, confidence, rationale) ==
    LET all == [label |-> label, confidence |-> confidence, rationale |-> rationale]
        keys == {k \in {"label", "confidence", "rationale"} : all[k] # Absent}
    IN  Dict([k \in keys |-> all[k]])

LowerOther == Str(Chars(<<"o", "t", "h", "e", "r">>))
LowerHi == Str(Chars(<<"h", "i">>))
Nope == Str(Chars(<<"N", "o", "p", "e">>))
Because == Str(Chars(<<"b", "e", "c", "a", "u", "s", "e">>))

LabelValues == {Absent, Other, LowerOther, Hi, HI, LowerHi, Lo, Nope, Num(5), None}
ConfidenceValues == {Absent, Num(95), Num(250), None}
RationaleValues == {Absent, Because}

Objects ==
    {Object(l, c, r) : l \in LabelValues, c \in ConfidenceValues, r \in RationaleValues}

\* decoded documents that are not objects
NonObjects ==
    {Num(5), None, Bool(TRUE), List(<<>>), List(<<Str(LabelKey)>>),
     Str(Chars(<<"h", "i">>)), Str(Chars(<<"m", "y">>) \o LabelKey)}

Documents == Objects \cup NonObjects

Wrap(open, body, close) == open \o body \o close

\* the ways the model's completion service dresses a document
Dressed(doc) ==
    {<<JsonText(doc)>>,
     Wrap(Chars(<<" ">>), <<JsonText(doc)>>, Chars(<<"\n">>)),
     Wrap(FenceJson \o Chars(<<"\n">>), <<JsonText(doc)>>, Chars(<<"\n">>) \o Fence),
     Wrap(Fence, <<JsonText(doc)>>, Fence)}

Responses ==
    UNION {Dressed(doc) : doc \in Documents}
        \cup {<<>>, Chars(<<"x">>), FenceJson \o Chars(<<"x">>) \o Fence}

\* the service returns a response with these message contents
Answers(choices) == Returns([choices |-> choices])

\* what the completion service may do with one request
Remotes ==
    {Raises(Exc("APIConnectionError", "Connection error.", <<>>)),
     Raises(Exc("Exception", "", <<>>)),
     Answers(<<>>),
     Answers(<<None>>)}
        \cup {Answers(<<Str(r)>>) : r \in Responses}

\* the behaviours drawn per item of a batch
BatchRemotes ==
    {Raises(Exc("APIConnectionError", "Connection error.", <<>>)),
     Answers(<<Str(<<JsonText(Object(Other, Num(95), Because))>>)>>),
     Answers(<<Str(Wrap(Fence, <<JsonText(Object(LowerHi, Num(250), Absent))>>, Fence))>>),
     Answers(<<Str(<<JsonText(Object(Nope, Absent, Absent))>>)>>),
     Answers(<<Str(Chars(<<"x">>))>>)}

RECURSIVE SeqsUpTo(_, _)
\* the sequences over S of length at most n
SeqsUpTo(S, n) ==
    IF n = 0 THEN {<<>>}
    ELSE LET shorter == SeqsUpTo(S, n - 1)
         IN  shorter \cup {Append(q, x) : q \in shorter, x \in S}

RECURSIVE Flatten(_)
Flatten(pieces) == IF pieces = <<>> THEN <<>> ELSE Head(pieces) \o Flatten(Tail(pieces))

\* the stretches of text a response body is put together from
Pieces ==
    {Chars(<<" ">>), Chars(<<"\n">>), Chars(<<"tick">>), Fence, Chars(<<"j", "s", "o", "n">>),
     Chars(<<"x">>),
     <<JsonText(Object(LowerHi, Num(95), Absent))>>,
     <<JsonText(Object(Other, Absent, Because))>>,
     <<JsonText(Object(Nope, Absent, Absent))>>,
     <<JsonText(Object(Absent, Num(95), Absent))>>,
     <<JsonText(Num(5))>>}

Bodies ==
    {Flatten(ps) : ps \in SeqsUpTo(Pieces, MaxBody)}
        \cup {<<JsonText(doc)>> : doc \in Documents}

(***************************************************************************)
(* State: the engine, and the last call made on it with its outcome; the   *)
(* loop of a classify_batch call followed step by step; the requests the   *)
(* web application is handling.                                            *)
(***************************************************************************)
VARIABLES
    classifier,  \* the TextClassifier, None before a construction succeeds
    op,          \* the method whose call is being looked at, or "idle"
    args,        \* its arguments
    remote,      \* what the environment did during it
    outcome,     \* what it returned or raised, prompts rendered, requests sent
    frame,       \* the locals of a classify_batch call inside its loop, or None
    requests,    \* per web request: the handler's position and its locals
    initialised  \* how many times init_classifier has assigned the global

vars == <<classifier, op, args, remote, outcome, frame, requests, initialised>>

\* the state of the web application
web == <<requests, initialised>>

\* no request in the slot
NoRequest == [pc |-> "none"]

Init ==
    /\ classifier = None
    /\ op = "idle"
    /\ args = <<>>
    /\ remote = <<>>
    /\ outcome = [kind |-> "none"]
    /\ frame = None
    /\ requests = [r \in 1..MaxRequests |-> NoRequest]
    /\ initialised = 0

\* TextClassifier(api_key, model, labels, config_file)
New(api_key, env_key, labels, config_file) ==
    LET made == Construct(api_key, env_key, DefaultModel, labels, config_file)
    IN  /\ classifier = None
        /\ op = "idle"
        /\ op' = "__init__"
        /\ args' = [api_key |-> api_key, model |-> DefaultModel, labels |-> labels,
                    config_file |-> config_file]
        /\ remote' = [OPENAI_API_KEY |-> env_key]
        /\ classifier' = IF made.kind = "return" THEN made.value ELSE None
        /\ outcome' = IF made.kind = "return" THEN Returns(None) ELSE made
        /\ UNCHANGED <<frame, web>>

\* classify keeping the label it last reported at the head of self.labels
CallClassifyReordering(text, r) ==
    LET out == Classify(classifier, text, r)
        kept == IF out.kind = "return" /\ out.value.error = None
                THEN SelectSeq(classifier.labels,
                               LAMBDA l : l = out.value.predicted_label)
                        \o SelectSeq(classifier.labels,
                                     LAMBDA l : l # out.value.predicted_label)
                ELSE classifier.labels
    IN  /\ classifier # None
        /\ op = "idle"
        /\ op' = "classify"
        /\ args' = [text |-> text]
        /\ remote' = r
        /\ outcome' = out
        /\ classifier' = [classifier EXCEPT !.labels = kept]
        /\ UNCHANGED <<frame, web>>

\* classifier.classify(text)
CallClassify(text, r) ==
    /\ classifier # None
    /\ op = "idle"
    /\ op' = "classify"
    /\ args' = [text |-> text]
    /\ remote' = r
    /\ outcome' = Classify(classifier, text, r)
    /\ UNCHANGED <<classifier, frame, web>>

\* classifier.classify_batch(texts)
CallClassifyBatch(texts, rs) ==
    /\ classifier # None
    /\ op = "idle"
    /\ op' = "classify_batch"
    /\ args' = [texts |-> texts]
    /\ remote' = rs
    /\ outcome' = ClassifyBatch(classifier, texts, rs)
    /\ UNCHANGED <<classifier, frame, web>>

\* classifier._parse_response(response_text)
CallParseResponse(response_text) ==
    /\ classifier # None
    /\ op = "idle"
    /\ op' = "_parse_response"
    /\ args' = [response_text |-> response_text]
    /\ remote' = <<>>
    /\ outcome' = ParseResponse(classifier.labels, response_text)
    /\ UNCHANGED <<classifier, frame, web>>

\* the caller has taken the outcome of the call; the engine waits for the next
Return ==
    /\ op # "idle"
    /\ outcome.kind # "none"
    /\ op' = "idle"
    /\ args' = <<>>
    /\ remote' = <<>>
    /\ outcome' = [kind |-> "none"]
    /\ UNCHANGED <<classifier, frame, web>>

NewAny ==
    \E api_key \in {None, ArgKey}, env_key \in {None, EnvKey},
       labels \in LabelArgs, config_file \in ConfigFileArgs :
        New(api_key, env_key, labels, config_file)

ClassifyAny == \E text \in Texts, r \in Remotes : CallClassify(text, r)

ClassifyBatchAny ==
    \E n \in 0..MaxBatch :
        \E texts \in [1..n -> Texts], rs \in [1..n -> BatchRemotes] :
            CallClassifyBatch(texts, rs)

\* the message content handed to the parser: a str, or None
ParseInputs == {Str(b) : b \in Bodies} \cup {None}

ParseAny == \E response_text \in ParseInputs : CallParseResponse(response_text)

Next == NewAny \/ ClassifyAny \/ ClassifyBatchAny \/ Return

Spec == Init /\ [][Next]_vars

\* the parser on its own, on every text put together from Pieces
ParseNext == NewAny \/ ParseAny \/ Return

ParseSpec == Init /\ [][ParseNext]_vars

(***************************************************************************)
(* classify_batch followed through its loop, one item per step.            *)
(***************************************************************************)
\* lines 224-225: classify_batch(texts) is entered; results = []
BatchEnter(texts, rs) ==
    /\ classifier # None
    /\ op = "idle"
    /\ op' = "classify_batch"
    /\ args' = [texts |-> texts]
    /\ remote' = rs
    /\ frame' = [i |-> 1, results |-> <<>>, prompts |-> <<>>, calls |-> <<>>]
    /\ UNCHANGED <<classifier, outcome, web>>

\* the step of the loop that sends the request of a failed item a second time
BatchStepRetry(result) ==
    IF result.kind = "raise"
    THEN /\ frame' = None
         /\ outcome' = Logged(Raises(result.exc), frame.prompts \o result.prompts,
                              frame.calls \o result.calls)
    ELSE /\ frame' = [i |-> frame.i + 1,
                      results |-> Append(frame.results, result.value),
                      prompts |-> frame.prompts \o result.prompts,
                      calls |-> IF result.value.error # None
                                THEN frame.calls \o result.calls \o result.calls
                                ELSE frame.calls \o result.calls]
         /\ UNCHANGED outcome

\* lines 226-227 with what self.classify(text) gave: results.append(result),
\* or the exception leaves classify_batch
BatchStep(result) ==
    IF result.kind = "raise"
    THEN /\ frame' = None
         /\ outcome' = Logged(Raises(result.exc), frame.prompts \o result.prompts,
                              frame.calls \o result.calls)
    ELSE /\ frame' = [i |-> frame.i + 1,
                      results |-> Append(frame.results, result.value),
                      prompts |-> frame.prompts \o result.prompts,
                      calls |-> frame.calls \o result.calls]
         /\ UNCHANGED outcome

\* lines 225-227: one pass of the loop, for the item texts[i]
BatchIterate ==
    /\ frame # None
    /\ frame.i <= Len(args.texts)
    /\ BatchStep(Classify(classifier, args.texts[frame.i], remote[frame.i]))
    /\ UNCHANGED <<classifier, op, args, remote, web>>

\* line 228: return results
BatchLeave ==
    /\ frame # None
    /\ frame.i > Len(args.texts)
    /\ frame' = None
    /\ outcome' = Logged(Returns(frame.results), frame.prompts, frame.calls)
    /\ UNCHANGED <<classifier, op, args, remote, web>>

BatchEnterAny ==
    \E n \in 0..MaxBatch :
        \E texts \in [1..n -> Texts], rs \in [1..n -> BatchRemotes] :
            BatchEnter(texts, rs)

BatchNext == NewAny \/ BatchEnterAny \/ BatchIterate \/ BatchLeave \/ Return

BatchSpec == Init /\ [][BatchNext]_vars

(***************************************************************************)
(* The web application of app.py: the global classifier, init_classifier   *)
(* and the handlers of /api/classify, /api/classify-batch,                 *)
(* /api/classify-file and /api/status.                                     *)
(***************************************************************************)
\* app.py lines 84 and 143: the most texts a request may carry
MaxTextsPerRequest == 100

\* str(t): a str is itself; the text of any other value is one chunk that is
\* neither empty nor whitespace
PyStr(v) == IF IsStr(v) THEN v ELSE Str(<<[repr |-> v]>>)

\* what a handler leaves behind: the HTTP status and JSON of its response,
\* its local results, the engine methods it invoked and the completion
\* requests sent meanwhile
Reply(status, json, results, engine, calls) ==
    [status |-> status, json |-> json, results |-> results, engine |-> engine,
     calls |-> calls]

\* jsonify({'error': message}), status
ErrorReply(status, message) == Reply(status, [error |-> message], <<>>, <<>>, <<>>)

\* an exception no handler code catches: Flask answers 500 without a JSON body
Unhandled(e) == Reply(500, [unhandled |-> e], <<>>, <<>>, <<>>)

\* app.py lines 53-61, 92-99, 151-158: the item a handler builds of a result
HttpItem(result) ==
    IF Truthy(result.error)
    THEN [text |-> result.text, predicted_label |-> result.predicted_label,
          confidence |-> result.confidence, rationale |-> result.rationale,
          error |-> result.error]
    ELSE [text |-> result.text, predicted_label |-> result.predicted_label,
          confidence |-> result.confidence, rationale |-> result.rationale]

\* text_classifier.py lines 352-362: the item main builds of a result
CliItem(result) ==
    [k \in {"text", "predicted_label"}
            \cup (IF result.confidence # None THEN {"confidence"} ELSE {})
            \cup (IF Truthy(result.rationale) THEN {"rationale"} ELSE {})
            \cup (IF Truthy(result.error) THEN {"error"} ELSE {})
        |-> result[k]]

\* classifier.classify(text) on the global as the handler finds it: an
\* AttributeError when it is None
GlobalClassify(self, text, r) ==
    IF self = None
    THEN Logged(Raises(Exc("AttributeError",
                           "'NoneType' object has no attribute 'classify'", <<>>)),
                <<>>, <<>>)
    ELSE Classify(self, text, r)

\* classifier.classify_batch(texts) on the global as the handler finds it
GlobalClassifyBatch(self, texts, rs) ==
    IF self = None
    THEN Logged(Raises(Exc("AttributeError",
                           "'NoneType' object has no attribute 'classify_batch'",
                           <<>>)),
                <<>>, <<>>)
    ELSE ClassifyBatch(self, texts, rs)

\* app.py lines 50-66 with what classifier.classify(text) gave
ClassifyReply(text, out) ==
    IF out.kind = "raise"
    THEN Reply(500, [error |-> StrOfExc(out.exc)], <<>>,
               <<[method |-> "classify", arg |-> text]>>, out.calls)
    ELSE Reply(200, HttpItem(out.value), <<out.value>>,
               <<[method |-> "classify", arg |-> text]>>, out.calls)

\* app.py lines 44-66: classify_text once the classifier is there; data is
\* the decoded JSON body
ClassifyText(self, data, rs) ==
    IF data.t # "dict"
    THEN Unhandled(Exc("AttributeError", "'{}' object has no attribute 'get'",
                       <<TypeName(data)>>))
    ELSE IF "text" \in DOMAIN data.d /\ ~ IsStr(data.d["text"])
    THEN Unhandled(Exc("AttributeError", "'{}' object has no attribute 'strip'",
                       <<TypeName(data.d["text"])>>))
    ELSE IF "text" \notin DOMAIN data.d \/ Strip(data.d["text"].s) = <<>>
    THEN ErrorReply(400, Message("No text provided"))
    ELSE ClassifyReply(Str(Strip(data.d["text"].s)),
                       GlobalClassify(self, Str(Strip(data.d["text"].s)), rs[1]))

\* app.py lines 87-105, 147-164 with what classifier.classify_batch(texts) gave
BatchReply(texts, out) ==
    IF out.kind = "raise"
    THEN Reply(500, [error |-> StrOfExc(out.exc)], <<>>,
               <<[method |-> "classify_batch", arg |-> texts]>>, out.calls)
    ELSE Reply(200,
               [results |-> [i \in DOMAIN out.value |-> HttpItem(out.value[i])],
                count |-> Len(out.value)],
               out.value,
               <<[method |-> "classify_batch", arg |-> texts]>>, out.calls)

\* the handler of /api/classify-batch testing the size after the engine ran
ClassifyBatchRouteLateCap(self, data, rs) ==
    IF data.t # "dict"
    THEN Unhandled(Exc("AttributeError", "'{}' object has no attribute 'get'",
                       <<TypeName(data)>>))
    ELSE IF \/ "texts" \notin DOMAIN data.d
            \/ ~ Truthy(data.d["texts"])
            \/ data.d["texts"].t # "list"
    THEN ErrorReply(400, Message("No texts provided or invalid format"))
    ELSE IF Len(data.d["texts"].items) > MaxTextsPerRequest
    THEN [BatchReply(data.d["texts"].items,
                     GlobalClassifyBatch(self, data.d["texts"].items, rs))
            EXCEPT !.status = 400,
                   !.json = [error |-> Message("Maximum 100 texts per batch")]]
    ELSE BatchReply(data.d["texts"].items,
                    GlobalClassifyBatch(self, data.d["texts"].items, rs))

\* app.py lines 78-105: classify_batch (the route) once the classifier is
\* there
ClassifyBatchRoute(self, data, rs) ==
    IF data.t # "dict"
    THEN Unhandled(Exc("AttributeError", "'{}' object has no attribute 'get'",
                       <<TypeName(data)>>))
    ELSE IF \/ "texts" \notin DOMAIN data.d
            \/ ~ Truthy(data.d["texts"])
            \/ data.d["texts"].t # "list"
    THEN ErrorReply(400, Message("No texts provided or invalid format"))
    ELSE IF Len(data.d["texts"].items) > MaxTextsPerRequest
    THEN ErrorReply(400, Message("Maximum 100 texts per batch"))
    ELSE BatchReply(data.d["texts"].items,
                    GlobalClassifyBatch(self, data.d["texts"].items, rs))

RECURSIVE SplitLines(_)
\* content.split('\n')
SplitLines(s) ==
    IF \A i \in DOMAIN s : s[i] # Ch("\n")
    THEN <<s>>
    ELSE LET k == CHOOSE i \in DOMAIN s :
                    s[i] = Ch("\n") /\ \A j \in 1..(i - 1) : s[j] # Ch("\n")
         IN  <<SubSeq(s, 1, k - 1)>> \o SplitLines(SubSeq(s, k + 1, Len(s)))

NotEmpty(s) == s # <<>>

\* app.py line 138: [line.strip() for line in content.split('\n') if line.strip()]
StrippedLines(s) ==
    LET lines == SplitLines(s)
        kept == SelectSeq([i \in DOMAIN lines |-> Strip(lines[i])], NotEmpty)
    IN  [i \in DOMAIN kept |-> Str(kept[i])]

\* app.py lines 130-138 with what json.loads(content) gave
TextsOf(content, loaded) ==
    IF loaded.kind = "raise"
    THEN StrippedLines(content.s)
    ELSE IF loaded.value.t = "list"
    THEN [i \in DOMAIN loaded.value.items |-> PyStr(loaded.value.items[i])]
    ELSE <<content>>

\* app.py lines 140-164 with the texts read from the file
ClassifyTexts(self, texts, rs) ==
    IF texts = <<>>
    THEN ErrorReply(400, Message("No valid texts found in file"))
    ELSE IF Len(texts) > MaxTextsPerRequest
    THEN ErrorReply(400, Message("Maximum 100 texts per file"))
    ELSE BatchReply(texts, GlobalClassifyBatch(self, texts, rs))

\* app.py lines 117-164: classify_file once the classifier is there; files
\* is request.files: None without a part named file, else the file's
\* filename and its content, a str or bytes that are not UTF-8
ClassifyFile(self, files, rs) ==
    IF files = None
    THEN ErrorReply(400, Message("No file provided"))
    ELSE IF files.filename = Str(<<>>)
    THEN ErrorReply(400, Message("No file selected"))
    ELSE IF ~ IsStr(files.content)
    THEN ErrorReply(500, StrOfExc(Exc("UnicodeDecodeError",
                                      "'utf-8' codec can't decode byte", <<>>)))
    ELSE ClassifyTexts(self, TextsOf(files.content, JsonLoads(files.content.s)), rs)

\* app.py lines 180-184: classifier.labels is an AttributeError no code
\* catches when the global is None
GetStatus(self) ==
    IF self = None
    THEN Unhandled(Exc("AttributeError", "'NoneType' object has no attribute 'labels'",
                       <<>>))
    ELSE Reply(200, [status |-> "ready", labels |-> self.labels, model |-> self.model],
               <<>>, <<>>, <<>>)

\* the part of a handler after the test of the global classifier
Handler(self, route, body, rs) ==
    CASE route = "/api/classify" -> ClassifyText(self, body, rs)
      [] route = "/api/classify-batch" -> ClassifyBatchRoute(self, body, rs)
      [] route = "/api/classify-file" -> ClassifyFile(self, body, rs)
      [] route = "/api/status" -> GetStatus(self)

\* app.py lines 41-42, 75-76, 114-115, 173-178: the response of a handler
\* whose init_classifier failed with the exception e
InitFailure(route, e) ==
    IF route = "/api/status"
    THEN Reply(200, [status |-> "error", message |-> StrOfExc(e), labels |-> <<>>],
               <<>>, <<>>, <<>>)
    ELSE ErrorReply(500, [t |-> "str",
                          msg |-> [fmt |-> "Failed to initialize classifier: {}",
                                   args |-> <<StrOfExc(e)>>]])

\* a request reaches its handler
Receive(r, route, body) ==
    /\ requests[r] = NoRequest
    /\ requests' = [requests EXCEPT ![r] = [pc |-> "test", route |-> route,
                                            body |-> body]]
    /\ UNCHANGED <<classifier, op, args, remote, outcome, frame, initialised>>

\* app.py lines 39, 73, 112, 171: if classifier is None
TestClassifier(r) ==
    /\ requests[r].pc = "test"
    /\ requests' = [requests EXCEPT ![r].pc =
                        IF classifier = None THEN "init" ELSE "handle"]
    /\ UNCHANGED <<classifier, op, args, remote, outcome, frame, initialised>>

\* app.py lines 20-27: init_classifier, with what TextClassifier() gave: the
\* instance is stored in the global, or the failure is answered
InitClassifier(r, made) ==
    /\ requests[r].pc = "init"
    /\ IF made.kind = "return"
       THEN /\ classifier' = made.value
            /\ initialised' = initialised + 1
            /\ requests' = [requests EXCEPT ![r].pc = "handle"]
       ELSE /\ requests' = [requests EXCEPT ![r] =
                    [pc |-> "done", route |-> requests[r].route,
                     body |-> requests[r].body,
                     reply |-> InitFailure(requests[r].route, made.exc)]]
            /\ UNCHANGED <<classifier, initialised>>
    /\ UNCHANGED <<op, args, remote, outcome, frame>>

\* the handler from the test of the classifier on, to its return
Handle(r, rs) ==
    /\ requests[r].pc = "handle"
    /\ requests' = [requests EXCEPT ![r] =
            [pc |-> "done", route |-> requests[r].route, body |-> requests[r].body,
             reply |-> Handler(classifier, requests[r].route, requests[r].body, rs)]]
    /\ UNCHANGED <<classifier, op, args, remote, outcome, frame, initialised>>

\* the response is sent
Respond(r) ==
    /\ requests[r].pc = "done"
    /\ requests' = [requests EXCEPT ![r] = NoRequest]
    /\ UNCHANGED <<classifier, op, args, remote, outcome, frame, initialised>>

(***************************************************************************)
(* The requests the model sends to the web application.                    *)
(***************************************************************************)
TextA == Str(Chars(<<"a">>))

\* elements of a JSON array: strings, numbers, a boolean, null, an array and
\* an object
Elements ==
    {TextA, Str(Chars(<<" ", "\n">>)), Num(5), Num(0), Bool(TRUE), None, List(<<>>),
     Dict([k |-> TextA])}

\* n times the text a
Repeated(n) == [i \in 1..n |-> TextA]

\* JSON bodies posted to /api/classify-batch: no texts, texts that are not
\* an array, every array of one or two elements, and arrays at and above
\* the size the handlers accept (one with the number 5 in the last place)
BatchBodies ==
    {Dict(<<>>), Dict([texts |-> List(<<>>)]), Dict([texts |-> TextA])}
        \cup {Dict([texts |-> List(a)]) : a \in SeqsUpTo(Elements, 2) \ {<<>>}}
        \cup {Dict([texts |-> List(Repeated(MaxTextsPerRequest))]),
              Dict([texts |-> List([Repeated(MaxTextsPerRequest)
                                        EXCEPT ![MaxTextsPerRequest] = Num(5)])]),
              Dict([texts |-> List(Repeated(MaxTextsPerRequest + 1))])}

\* request.files of the requests posted to /api/classify-file: no part named
\* file, no file selected, and a file holding nothing, lines of text, a JSON
\* array, a JSON object, or bytes that are not UTF-8
FileBodies ==
    {None, [filename |-> Str(<<>>), content |-> Str(<<>>)]}
        \cup {[filename |-> Str(Chars(<<"t", ".", "t", "x", "t">>)), content |-> c] :
                c \in {Str(<<>>),
                       Str(Chars(<<"a", "\n", "\n", " ", "b", " ", "\n">>)),
                       Str(<<JsonText(List(<<>>))>>),
                       Str(<<JsonText(List(<<TextA, Num(5), Str(<<>>)>>))>>),
                       Str(<<JsonText(Object(Other, Num(95), Absent))>>),
                       Str(<<JsonText(List(Repeated(MaxTextsPerRequest)))>>),
                       Str(<<JsonText(List(Repeated(MaxTextsPerRequest + 1)))>>),
                       [t |-> "bytes"]}}

\* the requests sent one at a time; the JSON bodies posted to /api/classify
\* hold no text, an empty text, a text, a number, or are not an object
WebRequests ==
    {[route |-> "/api/classify", body |-> b] :
            b \in {Dict(<<>>), Dict([text |-> Str(<<>>)]),
                   Dict([text |-> Str(Chars(<<" ", "b", " ">>))]),
                   Dict([text |-> Num(5)]), List(<<>>)}}
        \cup {[route |-> "/api/classify-batch", body |-> b] : b \in BatchBodies}
        \cup {[route |-> "/api/classify-file", body |-> b] : b \in FileBodies}
        \cup {[route |-> "/api/status", body |-> None]}

\* what the completion service may do with one request of a web request
WebRemotes ==
    {Raises(Exc("APIConnectionError", "Connection error.", <<>>)),
     Raises(Exc("Exception", "", <<>>)),
     Answers(<<Str(<<JsonText(Object(Other, Num(95), Because))>>)>>),
     Answers(<<Str(Chars(<<"x">>))>>)}

\* what the service does for the items of a request: one behaviour for the
\* first item and one for the others
Scripts(S) ==
    {[i \in 1..(MaxTextsPerRequest + 1) |-> IF i = 1 THEN first ELSE others] :
        first \in S, others \in S}

\* TextClassifier() as init_classifier calls it: every argument at its default
MakeDefault(env_key) == Construct(None, env_key, DefaultModel, None, None)

\* one request at a time
ReceiveOne == \E req \in WebRequests : Receive(1, req.route, req.body)

TestAny == \E r \in 1..MaxRequests : TestClassifier(r)

InitAny ==
    \E r \in 1..MaxRequests, env_key \in {None, EnvKey} :
        InitClassifier(r, MakeDefault(env_key))

HandleAny == \E r \in 1..MaxRequests, rs \in Scripts(WebRemotes) : Handle(r, rs)

RespondAny == \E r \in 1..MaxRequests : Respond(r)

WebNext == ReceiveOne \/ TestAny \/ InitAny \/ HandleAny \/ RespondAny

\* the handlers on every request of WebRequests, one request at a time
WebSpec == Init /\ [][WebNext]_vars

\* requests arriving while others are being handled
ReceiveAny ==
    \E r \in 1..MaxRequests,
       req \in {[route |-> "/api/classify", body |-> Dict([text |-> TextA])],
                [route |-> "/api/classify-batch",
                 body |-> Dict([texts |-> List(<<TextA>>)])],
                [route |-> "/api/classify-file",
                 body |-> [filename |-> Str(Chars(<<"t">>)), content |-> TextA]],
                [route |-> "/api/status", body |-> None]} :
        Receive(r, req.route, req.body)

\* the handlers of concurrent requests, the service answering every item
HandleRace ==
    \E r \in 1..MaxRequests,
       rs \in Scripts({Answers(<<Str(<<JsonText(Object(Other, Num(95), Because))>>)>>)}) :
        Handle(r, rs)

RaceNext == ReceiveAny \/ TestAny \/ InitAny \/ HandleRace \/ RespondAny

\* the handlers under every interleaving of MaxRequests requests
RaceSpec == Init /\ [][RaceNext]_vars

(***************************************************************************)
(* Properties of classify and classify_batch, checked under Spec.          *)
(***************************************************************************)
\* a text that is empty or holds whitespace only
Blank(text) == \A i \in DOMAIN text.s : IsSpace(text.s[i])

\* the call of classify on text with the service doing r runs into a render,
\* remote, parse or validation failure
FailurePath(self, text, r) ==
    \/ BuildPrompt(self, text).kind = "raise"
    \/ r.kind = "raise"
    \/ r.value.choices = <<>>
    \/ ParseResponse(self.labels, r.value.choices[1]).kind = "raise"

\* C1: classify returns a result and never raises, whatever the text and
\* whatever the completion service does, and so does classify_batch; on every
\* failure path the returned result carries an error string.
C1_NeverRaises ==
    /\ op = "classify" =>
        /\ outcome.kind = "return"
        /\ (~ Blank(args.text) /\ FailurePath(classifier, args.text, remote)) =>
                IsStr(outcome.value.error)
    /\ op = "classify_batch" =>
        /\ outcome.kind = "return"
        /\ \A i \in DOMAIN args.texts :
            (~ Blank(args.texts[i]) /\ FailurePath(classifier, args.texts[i], remote[i])) =>
                IsStr(outcome.value[i].error)

\* C1 happens: the completion call raised and classify returned a result with
\* the error
C1_Witness ==
    /\ op = "classify"
    /\ ~ Blank(args.text)
    /\ remote.kind = "raise"
    /\ outcome.kind = "return"
    /\ outcome.value.error = StrOfExc(remote.exc)

\* the shape every returned result must have
ResultInvariant(self, result) ==
    \/ /\ result.error # None
       /\ result.predicted_label = Other
    \/ /\ result.error = None
       /\ \E i \in DOMAIN self.labels : self.labels[i] = result.predicted_label

\* C2: every result classify returns has either an error and the fallback
\* label, or no error and a label of the configured label set.
C2_ErrorXorLabel ==
    /\ (op = "classify" /\ outcome.kind = "return") =>
            ResultInvariant(classifier, outcome.value)
    /\ (op = "classify_batch" /\ outcome.kind = "return") =>
            \A i \in DOMAIN outcome.value : ResultInvariant(classifier, outcome.value[i])

\* C2 happens: a result without error whose label is a member other than the
\* fallback, next to a response naming a label outside the set
C2_Witness ==
    /\ op = "classify_batch"
    /\ outcome.kind = "return"
    /\ Len(outcome.value) = 2
    /\ outcome.value[1].error = None
    /\ outcome.value[1].predicted_label = Hi
    /\ remote[2] = Answers(<<Str(<<JsonText(Object(Nope, Absent, Absent))>>)>>)
    /\ outcome.value[2].error # None

\* C3: for a blank text classify returns the fallback label and the error
\* "Empty text provided", renders no prompt and sends no completion request.
C3_BlankShortCircuit ==
    (op = "classify" /\ Blank(args.text)) =>
        /\ outcome.kind = "return"
        /\ outcome.value.predicted_label = Other
        /\ outcome.value.error = Message("Empty text provided")
        /\ Truthy(outcome.value.error)
        /\ outcome.prompts = <<>>
        /\ outcome.calls = <<>>

\* C3 happens: a whitespace-only text, with a service that would have answered
C3_Witness ==
    /\ op = "classify"
    /\ args.text = Str(Chars(<<" ", "\n">>))
    /\ remote = Answers(<<Str(<<JsonText(Object(Other, Num(95), Because))>>)>>)
    /\ outcome.kind = "return"
    /\ outcome.calls = <<>>

\* C4: classify_batch returns one result per text, in the order of the texts:
\* the i-th result's text is texts[i].
C4_BatchPositional ==
    op = "classify_batch" =>
        /\ outcome.kind = "return"
        /\ Len(outcome.value) = Len(args.texts)
        /\ \A i \in DOMAIN args.texts : outcome.value[i].text = args.texts[i]

\* C4 happens: a batch of a failing item, then a different item that succeeds
C4_Witness ==
    /\ op = "classify_batch"
    /\ outcome.kind = "return"
    /\ Len(args.texts) = 2
    /\ args.texts[1] # args.texts[2]
    /\ outcome.value[1].error # None
    /\ outcome.value[2].error = None

SameVerdict(a, b) ==
    /\ a.predicted_label = b.predicted_label
    /\ a.confidence = b.confidence
    /\ a.rationale = b.rationale
    /\ a.error = b.error

\* the run of the same batch in which the service does alt for item i
OtherRun(i, alt) == ClassifyBatch(classifier, args.texts, [remote EXCEPT ![i] = alt])

\* C5: two runs of a batch that differ only in what the service does for
\* item i, which fails in one and succeeds in the other, give every other item
\* the same label, confidence, rationale and error.
C5_Isolation ==
    (op = "classify_batch" /\ outcome.kind = "return") =>
        \A i \in DOMAIN args.texts : \A alt \in BatchRemotes :
            LET other == OtherRun(i, alt)
            IN  (/\ other.kind = "return"
                 /\ i \in DOMAIN other.value
                 /\ i \in DOMAIN outcome.value
                 /\ (other.value[i].error = None) # (outcome.value[i].error = None)) =>
                    /\ Len(other.value) = Len(outcome.value)
                    /\ \A j \in DOMAIN outcome.value \ {i} :
                        SameVerdict(other.value[j], outcome.value[j])

\* C5 happens: item 1 failed at the remote call, item 2 succeeded, and there
\* is a run in which item 1 succeeds
C5_Witness ==
    /\ op = "classify_batch"
    /\ outcome.kind = "return"
    /\ Len(args.texts) = 2
    /\ remote[1].kind = "raise"
    /\ outcome.value[1].error # None
    /\ outcome.value[2].error = None
    /\ \E alt \in BatchRemotes :
        /\ OtherRun(1, alt).kind = "return"
        /\ OtherRun(1, alt).value[1].error = None

\* the response is one of the model's dressings of the document doc
Carries(r, doc) ==
    /\ r.kind = "return"
    /\ \E raw \in Dressed(doc) : r = Answers(<<Str(raw)>>)

\* doc is an object whose label equals a member of labels, at least when case
\* is ignored
LabelMatches(labels, doc) ==
    /\ doc.t = "dict"
    /\ "label" \in DOMAIN doc.d
    /\ IsStr(doc.d["label"])
    /\ \E i \in DOMAIN labels : Lower(labels[i].s) = Lower(doc.d["label"].s)

\* C6: for a text that is not blank, when the completion call succeeds and
\* its output decodes to an object whose label matches a member of the label
\* set, classify returns the text unmodified, that member as the label, the
\* decoded confidence and rationale as they are (None for a missing key, no
\* clamping of the confidence) and no error.
C6_SuccessPassThrough ==
    (op = "classify" /\ ~ Blank(args.text) /\ outcome.calls # <<>>) =>
        \A doc \in Objects :
            (Carries(remote, doc) /\ LabelMatches(classifier.labels, doc)) =>
                /\ outcome.kind = "return"
                /\ outcome.value.text = args.text
                /\ \E i \in DOMAIN classifier.labels :
                    /\ outcome.value.predicted_label = classifier.labels[i]
                    /\ Lower(classifier.labels[i].s) = Lower(doc.d["label"].s)
                /\ outcome.value.confidence =
                        (IF "confidence" \in DOMAIN doc.d THEN doc.d["confidence"] ELSE None)
                /\ outcome.value.rationale =
                        (IF "rationale" \in DOMAIN doc.d THEN doc.d["rationale"] ELSE None)
                /\ outcome.value.error = None

\* C6 happens: a fenced answer with a lower-case label, a confidence of 2.5
\* and no rationale, for a text with spaces around it
C6_Witness ==
    /\ op = "classify"
    /\ args.text = Str(Chars(<<" ", "b", " ">>))
    /\ Carries(remote, Object(LowerHi, Num(250), Absent))
    /\ outcome.kind = "return"
    /\ outcome.value.text = Str(Chars(<<" ", "b", " ">>))
    /\ outcome.value.confidence = Num(250)
    /\ outcome.value.rationale = None
    /\ outcome.value.error = None

(***************************************************************************)
(* Properties of _parse_response, checked under ParseSpec.                 *)
(***************************************************************************)
\* what json.loads gives for the text once its markers are stripped
Decoded(response_text) == JsonLoads(StripCodeBlock(response_text.s))

\* the text decodes to an object with a str under "label"
HasStrLabel(response_text) ==
    LET decoded == Decoded(response_text)
    IN  /\ IsStr(response_text)
        /\ decoded.kind = "return"
        /\ decoded.value.t = "dict"
        /\ "label" \in DOMAIN decoded.value.d
        /\ IsStr(decoded.value.d["label"])

LabelOf(response_text) == Decoded(response_text).value.d["label"]

IsMember(labels, label) == \E i \in DOMAIN labels : labels[i] = label

\* the first member of labels equal to label when case is ignored
FirstIgnoringCase(labels, label) ==
    labels[CHOOSE i \in DOMAIN labels :
                /\ Lower(labels[i].s) = Lower(label.s)
                /\ \A j \in 1..(i - 1) : Lower(labels[j].s) # Lower(label.s)]

\* C7: a decoded label equal to a member of the label set is returned
\* unchanged; otherwise one equal to some member ignoring case is replaced by
\* the first such member, in the member's spelling.
C7_CanonicalLabel ==
    (op = "_parse_response" /\ HasStrLabel(args.response_text)) =>
        LET label == LabelOf(args.response_text)
            labels == classifier.labels
        IN  /\ IsMember(labels, label) =>
                /\ outcome.kind = "return"
                /\ outcome.value.predicted_label = label
            /\ (/\ ~ IsMember(labels, label)
                /\ \E i \in DOMAIN labels : Lower(labels[i].s) = Lower(label.s)) =>
                /\ outcome.kind = "return"
                /\ outcome.value.predicted_label = FirstIgnoringCase(labels, label)

\* C7 happens: the label set is [HI, Hi] and the response says hi
C7_Witness ==
    /\ op = "_parse_response"
    /\ classifier.labels = <<HI, Hi>>
    /\ HasStrLabel(args.response_text)
    /\ LabelOf(args.response_text) = LowerHi
    /\ outcome.kind = "return"
    /\ outcome.value.predicted_label = HI

\* the body inside a fenced code block: optional whitespace, the opening
\* marker with or without the json tag, the body with or without a line break
\* on either side, the closing marker, optional whitespace
Fenced(body) ==
    {lead \o Fence \o tag \o gap1 \o body \o gap2 \o Fence \o trail :
        lead \in {<<>>, Chars(<<" ">>)},
        tag \in {<<>>, Chars(<<"j", "s", "o", "n">>)},
        gap1 \in {<<>>, Chars(<<"\n">>)},
        gap2 \in {<<>>, Chars(<<"\n">>)},
        trail \in {<<>>, Chars(<<"\n">>)}}

\* C8 as stated: for every body, the parser's outcome on the body inside a
\* fenced code block is its outcome on the body alone.
C8_FencedSameAsBare ==
    (op = "_parse_response" /\ IsStr(args.response_text)) =>
        \A fenced \in Fenced(args.response_text.s) :
            ParseResponse(classifier.labels, Str(fenced)) = outcome

\* the body, surrounding whitespace ignored, neither begins nor ends with a
\* triple-backtick marker of its own, and the body does not begin with json
NoMarkerOfItsOwn(body) ==
    /\ ~ StartsWith(Strip(body), Fence)
    /\ ~ EndsWith(Strip(body), Fence)
    /\ ~ StartsWith(body, Chars(<<"j", "s", "o", "n">>))

\* C8 amended: for every body that carries no marker of its own at either
\* end and does not begin with json, the parser's outcome on the body inside a
\* fenced code block is its outcome on the body alone.
C8_FencedSameAsBareAmended ==
    (/\ op = "_parse_response"
     /\ IsStr(args.response_text)
     /\ NoMarkerOfItsOwn(args.response_text.s)) =>
        \A fenced \in Fenced(args.response_text.s) :
            ParseResponse(classifier.labels, Str(fenced)) = outcome

\* C8 happens: a JSON object on its own parses to a label, and so does the
\* same object between a json-tagged opening marker and a closing marker
C8_Witness ==
    /\ op = "_parse_response"
    /\ args.response_text = Str(<<JsonText(Object(LowerHi, Num(95), Absent))>>)
    /\ NoMarkerOfItsOwn(args.response_text.s)
    /\ outcome.kind = "return"
    /\ ParseResponse(classifier.labels,
                     Str(FenceJson \o Chars(<<"\n">>) \o args.response_text.s
                            \o Chars(<<"\n">>) \o Fence)) = outcome

\* the kinds of failure, told apart by the message of the ValueError
MalformedPayload(e) == e.msg.fmt = "Failed to parse JSON response: {}"

Wrapped(e) == e.msg.fmt = "Error parsing response: {}"

MissingLabel(e) ==
    /\ Wrapped(e)
    /\ e.msg.args[1].fmt = "Response missing 'label' field"

UnknownLabel(e) ==
    /\ Wrapped(e)
    /\ e.msg.args[1].fmt = "Invalid label '{}'. Must be one of: {}"

\* the message of a TypeError or AttributeError behind the catch-all prefix
Unclassified(e) ==
    /\ Wrapped(e)
    /\ e.msg.args[1].fmt \in {"argument of type '{}' is not iterable",
                              "list indices must be integers or slices, not str",
                              "string indices must be integers, not 'str'",
                              "'{}' object has no attribute 'lower'",
                              "'{}' object has no attribute 'strip'"}

\* the decoded value has no "label": an object without the key, or a list or
\* str that does not contain it
LacksLabel(v) ==
    \/ v.t = "dict" /\ "label" \notin DOMAIN v.d
    \/ v.t = "list" /\ \A i \in DOMAIN v.items : v.items[i] # Str(LabelKey)
    \/ v.t = "str" /\ ~ Contains(v.s, LabelKey)

\* the decoded value is an object whose label is a str that matches no member
\* of labels under any casing
LabelUnknown(labels, v) ==
    /\ v.t = "dict"
    /\ "label" \in DOMAIN v.d
    /\ IsStr(v.d["label"])
    /\ \A i \in DOMAIN labels : Lower(labels[i].s) # Lower(v.d["label"].s)

\* C9 as stated: the parser's outcome is the validated triple or a failure of
\* one of three kinds: MalformedPayload when the text does not decode,
\* MissingLabel when it decodes but has no label key, UnknownLabel when the
\* label matches no member; no input gives any other failure.
C9_ThreeKinds ==
    (op = "_parse_response" /\ outcome.kind = "raise") =>
        LET e == outcome.exc
        IN  /\ e.type = "ValueError"
            /\ MalformedPayload(e) \/ MissingLabel(e) \/ UnknownLabel(e)

\* C9 amended: the parser's outcome is the validated triple or a ValueError
\* of one of four kinds: MalformedPayload exactly when the text does not
\* decode, MissingLabel exactly when it decodes to a value without "label",
\* UnknownLabel exactly when the label is a str matching no member under any
\* casing, and otherwise (the message is not a str, the decoded value is a
\* number, boolean or null or a list or str containing "label", the label is
\* not a str) the message of the TypeError or AttributeError behind the
\* prefix "Error parsing response: ".
C9_FourKinds ==
    op = "_parse_response" =>
        \/ outcome.kind = "return"
        \/ /\ outcome.kind = "raise"
           /\ outcome.exc.type = "ValueError"
           /\ LET e == outcome.exc
                  text == args.response_text
              IN  IF ~ IsStr(text) THEN Unclassified(e)
                  ELSE IF Decoded(text).kind = "raise" THEN MalformedPayload(e)
                  ELSE IF LacksLabel(Decoded(text).value) THEN MissingLabel(e)
                  ELSE IF LabelUnknown(classifier.labels, Decoded(text).value)
                  THEN UnknownLabel(e)
                  ELSE Unclassified(e)

\* C9 happens: the text decodes to the number 5 and the parser raises a
\* ValueError that is none of the three kinds
C9_Witness ==
    /\ op = "_parse_response"
    /\ args.response_text = Str(<<JsonText(Num(5))>>)
    /\ outcome.kind = "raise"
    /\ outcome.exc.type = "ValueError"
    /\ Unclassified(outcome.exc)

(***************************************************************************)
(* Construction, checked under Spec.                                       *)
(***************************************************************************)
\* the label lists the caller supplies: the labels argument when given, and
\* the labels of the config file when the file exists and has them
SuppliedLabels(a) ==
    (IF a.labels # None THEN {a.labels} ELSE {})
        \cup (IF /\ a.config_file # None
                 /\ a.config_file.exists
                 /\ a.config_file.content.t = "dict"
                 /\ "labels" \in DOMAIN a.config_file.content.d
              THEN {a.config_file.content.d["labels"]}
              ELSE {})

\* the config file, if one is named and exists, can be read
ConfigReadable(a) ==
    (a.config_file # None /\ a.config_file.exists) => a.config_file.content.t = "dict"

\* C10 as stated: construction fails whenever a list of fewer than two labels
\* is supplied, as the labels argument or in the config file; it succeeds
\* whenever a credential is available and two or more labels are supplied;
\* and no call after construction raises the error.
C10_FewerThanTwoFails ==
    /\ op = "__init__" =>
        /\ (\E l \in SuppliedLabels(args) : Len(l.items) < 2) => outcome.kind = "raise"
        /\ (/\ Truthy(Or(args.api_key, remote.OPENAI_API_KEY))
            /\ ConfigReadable(args)
            /\ SuppliedLabels(args) # {}
            /\ \A l \in SuppliedLabels(args) : Len(l.items) >= 2) =>
                outcome.kind = "return"
    /\ op \in {"classify", "classify_batch"} => outcome.kind = "return"

\* the labels of the config file, when the file is named, exists and has them
ConfigHasLabels(a) ==
    /\ a.config_file # None
    /\ a.config_file.exists
    /\ a.config_file.content.t = "dict"
    /\ "labels" \in DOMAIN a.config_file.content.d

\* the label set the stated precedence gives: the labels argument when it
\* names labels (--labels takes one or more), else the labels of the config
\* file, else the defaults
PrecedenceLabels(a) ==
    IF Truthy(a.labels) THEN a.labels
    ELSE IF ConfigHasLabels(a) THEN a.config_file.content.d["labels"]
    ELSE DefaultLabels

\* C11 as stated: the engine's label set is the labels argument when it is
\* given, with or without a config file that has labels; the labels of the
\* config file when only they are given; the defaults when neither is given.
C11_LabelPrecedence ==
    (op = "__init__" /\ outcome.kind = "return") =>
        classifier.labels = PrecedenceLabels(args).items

\* C13: once the engine is constructed, no call of classify or classify_batch
\* changes its labels, prompt_template, model or client, and what a call
\* gives is what classify or classify_batch computes from the configuration
\* as it was before the call, the text and what the service did.
C13_ConfigurationFrame ==
    [][classifier # None =>
        /\ classifier' = classifier
        /\ op' = "classify" =>
                outcome' = Classify(classifier, args'.text, remote')
        /\ op' = "classify_batch" =>
                outcome' = ClassifyBatch(classifier, args'.texts, remote')]_vars

\* C13 happens: the response said hi, the result reports the member HI in
\* its own spelling, and the label set is still [HI, Hi]
C13_Witness ==
    /\ op = "classify"
    /\ Carries(remote, Object(LowerHi, Num(95), Absent))
    /\ outcome.kind = "return"
    /\ outcome.value.error = None
    /\ outcome.value.predicted_label = HI
    /\ classifier.labels = <<HI, Hi>>
    /\ classifier.model = DefaultModel

(***************************************************************************)
(* The order of the completion requests of a batch, checked under          *)
(* BatchSpec.                                                              *)
(***************************************************************************)
\* the loop is about to run its pass for item i
PassFor(i) == frame # None /\ frame.i = i /\ i \in DOMAIN args.texts

\* the pass for item i keeps the loop going: the result of item i is appended
\* behind the results of the items before it, and the next pass is for i + 1
KeepsGoing(i) ==
    /\ Len(frame.results) = i - 1
    /\ frame' # None
    /\ frame'.i = i + 1
    /\ Len(frame'.results) = i
    /\ SubSeq(frame'.results, 1, i - 1) = frame.results
    /\ frame'.results[i].text = args.texts[i]

\* the pass sends no request
SendsNone == frame'.calls = frame.calls

\* the pass sends one request, after those sent so far
SendsOne ==
    /\ Len(frame'.calls) = Len(frame.calls) + 1
    /\ SubSeq(frame'.calls, 1, Len(frame.calls)) = frame.calls

\* C12 as stated: each pass of the loop sends exactly one request when its
\* item is not blank and none when it is blank, after the results of all the
\* items before it have been appended; whatever the outcome of the item, the
\* loop goes on to the next item.
C12_OneCallPerNonBlankItem ==
    [][\A i \in 1..MaxBatch + 1 :
        PassFor(i) =>
            /\ KeepsGoing(i)
            /\ IF Blank(args.texts[i]) THEN SendsNone ELSE SendsOne]_vars

\* C12 amended: each pass of the loop sends exactly one request, carrying
\* the prompt rendered for its item, when the item is not blank and its
\* prompt renders, and none when the item is blank or its prompt fails to
\* render; the request is sent after the results of all the items before it
\* have been appended; whatever the outcome of the item, the loop goes on to
\* the next item; and what the loop returns is what classify_batch gives.
C12_OneCallPerRenderedItem ==
    [][/\ \A i \in 1..MaxBatch + 1 :
            PassFor(i) =>
                /\ KeepsGoing(i)
                /\ IF \/ Blank(args.texts[i])
                      \/ BuildPrompt(classifier, args.texts[i]).kind = "raise"
                   THEN SendsNone
                   ELSE /\ SendsOne
                        /\ frame'.calls[Len(frame'.calls)] =
                             CreateCall(classifier,
                                        BuildPrompt(classifier, args.texts[i]).value)
       /\ (frame # None /\ frame' = None) =>
            outcome' = ClassifyBatch(classifier, args.texts, remote)]_vars

\* C12 happens: the loop has passed two items that are not blank, the first
\* failed at the remote call and the second succeeded, and two requests were
\* sent, the second for the second item
C12_Witness ==
    /\ frame # None
    /\ frame.i = 3
    /\ ~ Blank(args.texts[1])
    /\ ~ Blank(args.texts[2])
    /\ remote[1].kind = "raise"
    /\ frame.results[1].error # None
    /\ frame.results[2].error = None
    /\ Len(frame.calls) = 2
    /\ frame.calls[2] =
        CreateCall(classifier, BuildPrompt(classifier, args.texts[2]).value)

(***************************************************************************)
(* The fallback label and the error of a failed classification.            *)
(***************************************************************************)
\* C15 as stated: the label of every result classify or classify_batch
\* returns, the results for blank texts and for failures included, is a
\* member of the engine's label set, whatever label set the constructor
\* accepted.
C15_LabelInLabelSet ==
    /\ (op = "classify" /\ outcome.kind = "return") =>
            IsMember(classifier.labels, outcome.value.predicted_label)
    /\ (op = "classify_batch" /\ outcome.kind = "return") =>
            \A i \in DOMAIN outcome.value :
                IsMember(classifier.labels, outcome.value[i].predicted_label)

(***************************************************************************)
(* Properties of the handlers of app.py, checked under WebSpec.            *)
(***************************************************************************)
\* the request in slot r has been answered by its handler
Answered(r, route) == requests[r].pc = "done" /\ requests[r].route = route

\* the request in slot r carries a list of texts
CarriesTexts(r) ==
    \/ /\ requests[r].route = "/api/classify-batch"
       /\ requests[r].body.t = "dict"
       /\ "texts" \in DOMAIN requests[r].body.d
       /\ requests[r].body.d["texts"].t = "list"
    \/ /\ requests[r].route = "/api/classify-file"
       /\ requests[r].body # None
       /\ requests[r].body.filename # Str(<<>>)
       /\ IsStr(requests[r].body.content)

\* the texts it carries: the array posted, or the texts read from the file
TextsCarried(r) ==
    IF requests[r].route = "/api/classify-batch"
    THEN requests[r].body.d["texts"].items
    ELSE TextsOf(requests[r].body.content, JsonLoads(requests[r].body.content.s))

\* the service doing the same for every item
Uniform(b) == [i \in 1..(MaxTextsPerRequest + 1) |-> b]

\* out holds one result per text, in the order of the texts
OnePerText(texts, out) ==
    /\ out.kind = "return"
    /\ Len(out.value) = Len(texts)
    /\ \A i \in DOMAIN texts : out.value[i].text = texts[i]

\* the engine takes the list whole: one result per text, in order
EngineTakesAll(self, texts) ==
    \A b \in WebRemotes : OnePerText(texts, ClassifyBatch(self, texts, Uniform(b)))

\* the handler's answer to a request carrying these texts keeps to the cap
CapKept(reply, texts) ==
    /\ Len(texts) > MaxTextsPerRequest =>
        /\ reply.status \in {400, 500}
        /\ "error" \in DOMAIN reply.json
        /\ reply.engine = <<>>
        /\ reply.calls = <<>>
        /\ classifier # None =>
            /\ reply.status = 400
            /\ EngineTakesAll(classifier, texts)
    /\ (Len(texts) = MaxTextsPerRequest /\ classifier # None) =>
            reply.engine = <<[method |-> "classify_batch", arg |-> texts]>>

\* C14: a request to /api/classify-batch or /api/classify-file carrying more
\* than 100 texts is answered with an error and neither the engine nor the
\* completion service is called for it, while classify_batch itself takes
\* the same list whole; a request carrying exactly 100 texts is handed to
\* the engine.
C14_CapInHandlersOnly ==
    \A r \in 1..MaxRequests :
        (requests[r].pc = "done" /\ CarriesTexts(r)) =>
            CapKept(requests[r].reply, TextsCarried(r))

\* C14 happens: an array of 101 texts was posted to /api/classify-batch and
\* answered 400 without a call of the engine, which takes all 101
C14_Witness ==
    /\ Answered(1, "/api/classify-batch")
    /\ CarriesTexts(1)
    /\ Len(TextsCarried(1)) = MaxTextsPerRequest + 1
    /\ classifier # None
    /\ requests[1].reply.status = 400
    /\ requests[1].reply.engine = <<>>
    /\ EngineTakesAll(classifier, TextsCarried(1))

\* a result built by classify on a failure path (lines 171-175, 208-212): the
\* only results whose error is not None
Failed(result) == result.error # None

\* the items a 200 reply carries: the response of /api/classify, or the
\* results list of /api/classify-batch and /api/classify-file
ItemsOf(reply) ==
    IF "results" \in DOMAIN reply.json THEN reply.json.results ELSE <<reply.json>>

\* the item reports the failure exactly when the classification failed, and
\* a failed result carries a non-empty error
ReportedIff(result, item) ==
    /\ Failed(result) => Truthy(result.error)
    /\ Failed(result) <=> "error" \in DOMAIN item
    /\ Failed(result) <=> "error" \in DOMAIN CliItem(result)

\* C16: for every result a handler got from the engine, the result's error
\* is a non-empty string when the classification failed (blank text, remote
\* exception with any message, parse or validation failure), and the item
\* emitted by the handler and by the CLI formatter has an 'error' key if
\* and only if the classification did not succeed.
C16_FailureAlwaysReported ==
    \A r \in 1..MaxRequests :
        (requests[r].pc = "done" /\ requests[r].reply.status = 200) =>
            \A i \in DOMAIN requests[r].reply.results :
                ReportedIff(requests[r].reply.results[i],
                            ItemsOf(requests[r].reply)[i])

\* a step keeps the instance the global holds: no assignment to the global
KeepsInstance == classifier' = classifier /\ initialised' = initialised

\* the request in slot r ends its initialisation with the failure reply
InitFails(r) == requests[r].pc = "init" /\ requests'[r].pc = "done"

\* C17: under every interleaving of requests to the four handlers, once the
\* global classifier holds an instance no step assigns the global again
\* (the instance is neither replaced nor reset to None), no handler runs
\* past the test with a None classifier, and a failed initialisation leaves
\* the global as it was.
C17_InitialisedAtMostOnce ==
    [][/\ classifier # None => KeepsInstance
       /\ \A r \in 1..MaxRequests :
            /\ requests[r].pc = "handle" => classifier # None
            /\ InitFails(r) => KeepsInstance]_vars

\* the request in slot r posts a JSON array of 1 to 100 elements as texts
PostsArray(r) ==
    /\ requests[r].route = "/api/classify-batch"
    /\ CarriesTexts(r)
    /\ Len(TextsCarried(r)) \in 1..MaxTextsPerRequest

\* the reply holds one entry per element, in input order, an element that
\* is not a string having an entry with an error
EntryPerElement(reply, texts) ==
    /\ reply.status = 200
    /\ "results" \in DOMAIN reply.json
    /\ reply.json.count = Len(texts)
    /\ Len(reply.json.results) = Len(texts)
    /\ \A i \in DOMAIN texts :
            /\ reply.json.results[i].text = texts[i]
            /\ ~ IsStr(texts[i]) => "error" \in DOMAIN reply.json.results[i]

\* C18: for every JSON array of 1 to 100 elements of any JSON type posted
\* as texts to /api/classify-batch, once the classifier is there, the reply
\* is a results list with exactly one entry per element in input order and
\* count equal to the array length, and an element the engine cannot
\* classify has an entry with an error without aborting the others.
C18_EntryPerElement ==
    \A r \in 1..MaxRequests :
        (requests[r].pc = "done" /\ PostsArray(r) /\ classifier # None) =>
            EntryPerElement(requests[r].reply, TextsCarried(r))

====
